---- MODULE Spec2Model ----
(***************************************************************************)
(* A model of the jump-rope frequency pipeline (bausano/jump-rope):       *)
(*   - FrequencyTracker   (src/src/frequency_tracker.rs)                   *)
(*   - FrameIter          (src/src/frame.rs), the frame differencer        *)
(*   - Oscillator         (src/src/oscillator.rs)                          *)
(*   - Analyzer           (src/src/frequency.rs), the vote over the bins   *)
(*   - analyzer_channel   (src/src/frequency.rs), the worker thread        *)
(*   - start_video_analysis (src/src/main.rs), the orchestrator thread     *)
(* Each component has its own next-state relation and specification; the  *)
(* variables of the other components stay at their initial values.        *)
(*                                                                         *)
(* Numbers.  f32 frequencies are modelled as exact integers counting      *)
(* 1/FreqUnit Hz; f32 rounding is not modelled.  Option<T> is modelled as *)
(* a sequence of length at most one: None is << >>, Some(x) is << x >>.   *)
(***************************************************************************)
EXTENDS Integers, Sequences, FiniteSets, TLC

VARIABLES
    inner,            \* FrequencyTracker.inner: BTreeMap<usize, Report>
    lastCall,         \* log: the most recent call made on the tracker
    previous_frame,   \* FrameIter.previous_frame: Option<GrayImage>
    source,           \* log: frames the decoder delivered to FrameIter
    emitted,          \* log: items FrameIter::next returned to its caller
    iterDone,         \* FrameIter::next has returned None
    state,            \* Oscillator.state: Vec<u8>
    window_fn,        \* Oscillator.window_fn: which table it was built with
    stats,            \* Oscillator.average and .variance (exact fractions)
    pushes,           \* log: number of push_pixel_value calls so far
    lastQuery,        \* log: the most recent frequency_bin call
    pushedValues,     \* log: the sample values pushed to the Oscillator so far
    lastEstimate,     \* log: the Analyzer::frequency call followed, if made
    workers,          \* the analyzer threads and their two channels, by multiplier
    orchestrator      \* the thread start_video_analysis spawns

vars == << inner, lastCall, previous_frame, source, emitted, iterDone,
           state, window_fn, stats, pushes, lastQuery, pushedValues,
           lastEstimate, workers, orchestrator >>

trackerVars == << inner, lastCall >>
frameVars == << previous_frame, source, emitted, iterDone >>
oscVars == << state, window_fn, stats, pushes, lastQuery, pushedValues >>
analyzerVars == << lastEstimate >>
pipeVars == << workers, orchestrator >>

None == << >>
Some(x) == << x >>

Abs(x) == IF x < 0 THEN -x ELSE x

RECURSIVE SortedSeq(_)
\* The elements of a finite set of numbers in ascending order (BTreeMap
\* iterates its keys in ascending order).
SortedSeq(S) ==
    IF S = {} THEN << >>
    ELSE LET m == CHOOSE x \in S : \A y \in S : x <= y
         IN << m >> \o SortedSeq(S \ {m})

(***************************************************************************)
(* Bounds of the model.                                                    *)
(***************************************************************************)
\* frame rate of the video (frames.frame_rate())
FrameRate == 1
\* frequencies are integers counting 1/FreqUnit Hz
FreqUnit == 12
\* largest frequency a Report carries, in 1/FreqUnit Hz
MaxFreq == 4
\* largest frame_index a Report carries
MaxFrameIndex == 1
\* pixels of a frame (width * height)
NumPixels == 2
\* frames the decoder delivers before the model stops it
MaxFrames == 2
\* push_pixel_value calls before the model stops the oscillator
MaxPushes == 5
\* largest bound of a requested bin range
MaxBin == 2

(***************************************************************************)
(* FrequencyTracker  (src/src/frequency_tracker.rs)                        *)
(***************************************************************************)
WINDOW_MULTIPLIERS == {4, 8, 12}

\* window: frame_rate * multiplier, one per analyzer
Windows == { FrameRate * m : m \in WINDOW_MULTIPLIERS }

Report == [ window : Windows,
            frame_index : 0..MaxFrameIndex,
            frequency : 0..MaxFreq ]

\* Faulty variant of insert: an entry that exists is kept (entry().or_insert).
insert_if_absent(map, report) ==
    [ w \in (DOMAIN map) \cup {report.window} |->
        IF w \in DOMAIN map THEN map[w] ELSE report ]

\* BTreeMap::insert(report.window, report): the entry of that key is set,
\* every other entry is kept.
insert(map, report) ==
    [ w \in (DOMAIN map) \cup {report.window} |->
        IF w = report.window THEN report ELSE map[w] ]

\* BTreeMap::values(): the reports by ascending window size.
values(map) ==
    LET keys == SortedSeq(DOMAIN map)
    IN [ i \in 1..Len(keys) |-> map[keys[i]] ]

\* slice::windows(2): the adjacent pairs, in order.
windows2(seq) ==
    [ i \in 1..(IF Len(seq) >= 2 THEN Len(seq) - 1 ELSE 0) |->
        << seq[i], seq[i + 1] >> ]

\* The take_while closure: s = frame_rate / prev.window, and
\* ((prev.frequency - s)..(prev.frequency + s)).contains(&curr.frequency),
\* a half-open range.  Both sides are multiplied by prev.window * FreqUnit so
\* that the division is exact.
within_interval(prev, curr) ==
    /\ prev.frequency * prev.window - FrameRate * FreqUnit
          <= curr.frequency * prev.window
    /\ curr.frequency * prev.window
          < prev.frequency * prev.window + FrameRate * FreqUnit

RECURSIVE take_while_len_filter(_, _)
\* Faulty variant of take_while_len: a pair that fails is skipped instead of ending
\* the traversal (filter in place of take_while): the position of the last
\* pair that satisfies the closure.
take_while_len_filter(pairs, n) ==
    IF n >= Len(pairs) THEN 0
    ELSE LET later == take_while_len_filter(pairs, n + 1)
         IN IF later > 0 THEN later
            ELSE IF within_interval(pairs[n + 1][1], pairs[n + 1][2])
                 THEN n + 1 ELSE 0

RECURSIVE take_while_len(_, _)
\* Iterator::take_while: the length of the longest prefix of pairs that all
\* satisfy the closure, counted from position n + 1.
take_while_len(pairs, n) ==
    IF n < Len(pairs) /\ within_interval(pairs[n + 1][1], pairs[n + 1][2])
    THEN take_while_len(pairs, n + 1)
    ELSE n

\* Faulty variant of calculate_latest: a default frequency in place of None.
calculate_latest_or_default(map) ==
    LET pairs == windows2(values(map))
        taken == take_while_len(pairs, 0)
    IN IF taken = 0 THEN Some(0) ELSE Some(pairs[taken][2].frequency)

\* FrequencyTracker::calculate_latest on the snapshot taken under the lock.
calculate_latest(map) ==
    LET frequencies_ordered_by_window_size == values(map)
        pairs == windows2(frequencies_ordered_by_window_size)
        taken == take_while_len(pairs, 0)
    IN  \* .last().map(|report| report[1].frequency)
        IF taken = 0 THEN None ELSE Some(pairs[taken][2].frequency)

\* FrequencyTracker::update: lock, insert, unlock.
Update(report) ==
    /\ inner' = insert(inner, report)
    /\ lastCall' = [ op |-> "update", report |-> Some(report),
                     result |-> None ]
    /\ UNCHANGED << frameVars, oscVars, analyzerVars, pipeVars >>

\* FrequencyTracker::calculate_latest: lock, clone the values, unlock, fold.
CalculateLatest ==
    /\ lastCall' = [ op |-> "calculate_latest",
                     report |-> None,
                     result |-> calculate_latest(inner) ]
    /\ UNCHANGED << inner, frameVars, oscVars, analyzerVars, pipeVars >>

TrackerNext ==
    \/ \E report \in Report : Update(report)
    \/ CalculateLatest

(***************************************************************************)
(* FrameIter, the frame differencer  (src/src/frame.rs)                    *)
(***************************************************************************)
\* grayscale intensities a pixel takes in the model (u8 values)
PixelValues == {0, 1, 2}

\* GrayImage of the fixed geometry: the raw pixel buffer
Frame == [ 1..NumPixels -> PixelValues ]

\* Faulty variant of copy_only_different_pixels: an unchanged pixel is not zeroed.
copy_all_pixels(previous, frame) ==
    [ i \in DOMAIN previous |-> frame[i] ]

\* copy_only_different_pixels: every pixel of the buffer (the previous frame)
\* becomes 0 where it equals the new frame's pixel and the new frame's pixel
\* elsewhere.
copy_only_different_pixels(previous, frame) ==
    [ i \in DOMAIN previous |->
        IF previous[i] = frame[i] THEN 0 ELSE frame[i] ]

RECURSIVE difference_retaining_change_frame(_, _)
\* Faulty variant of difference_between_input_frame_and_previous_frame: the buffer
\* returned (the change-frame) is what previous_frame keeps.
difference_retaining_change_frame(previous, read) ==
    IF read = None
    THEN [ previous_frame |-> previous, item |-> None ]
    ELSE IF previous # None
    THEN LET buffer == copy_only_different_pixels(previous[1], read[1])
         IN [ previous_frame |-> Some(buffer), item |-> Some(buffer) ]
    ELSE difference_retaining_change_frame(read, read)

RECURSIVE difference_between_input_frame_and_previous_frame(_, _)
\* FrameIter::difference_between_input_frame_and_previous_frame.  `previous`
\* is self.previous_frame; `read` is what read_input_frame returns for the
\* decoder's current input buffer (None when the conversion fails), the same
\* on every call until the decoder receives the next frame.  The result is the
\* new previous_frame and the item returned.
difference_between_input_frame_and_previous_frame(previous, read) ==
    IF read = None
    THEN \* let frame = self.read_input_frame()?;
         [ previous_frame |-> previous, item |-> None ]
    ELSE IF previous # None
    THEN [ previous_frame |-> read,
           item |-> Some(copy_only_different_pixels(previous[1], read[1])) ]
    ELSE \* first frame: remember it and call the function again
         difference_between_input_frame_and_previous_frame(read, read)

\* Iterator::next when decoder.receive_frame succeeds with `frame`;
\* `readable` is whether the scaler converts it (read_input_frame is Some).
NextFrame(frame, readable) ==
    /\ ~iterDone
    /\ Len(source) < MaxFrames
    /\ LET r == difference_between_input_frame_and_previous_frame(
                    previous_frame, IF readable THEN Some(frame) ELSE None)
       IN /\ previous_frame' = r.previous_frame
          /\ source' = Append(source, [ frame |-> frame, readable |-> readable ])
          /\ emitted' = IF r.item = None THEN emitted
                        ELSE Append(emitted, [ input |-> Len(source) + 1,
                                               frame |-> r.item[1] ])
          /\ iterDone' = (r.item = None)
    /\ UNCHANGED << trackerVars, oscVars, analyzerVars, pipeVars >>

\* Iterator::next when the decoder has no frame left (eof, or a packet the
\* decoder rejects): it returns None and the caller's loop ends.
NextEof ==
    /\ ~iterDone
    /\ iterDone' = TRUE
    /\ UNCHANGED << previous_frame, source, emitted, trackerVars, oscVars,
                    analyzerVars, pipeVars >>

FrameNext ==
    \/ \E frame \in Frame, readable \in BOOLEAN : NextFrame(frame, readable)
    \/ NextEof

(***************************************************************************)
(* Oscillator  (src/src/oscillator.rs)                                     *)
(*                                                                         *)
(* The oscillator of the model has window 4, the size at which the forward *)
(* DFT has the twiddle factors 1, -i, -1, i and is exact over the          *)
(* integers.  Window table values are integers counting 1/50, complex      *)
(* numbers are pairs << re, im >>, magnitudes are compared by their        *)
(* squares, and average and variance are exact fractions << num, den >>.   *)
(***************************************************************************)
\* window_fn.size() of the oscillator under study
OscWindow == 4

\* sample values pushed in the model (u8 values)
Samples == {0, 20, 255}

MAGNITUDE_THRESHOLD == 5

\* WindowFn::rectangular(4): 1.0 everywhere, in 1/50
rectangular == << 50, 50, 50, 50 >>

\* WindowFn::blackman(4): 0.42 - 0.5 cos(2 pi n / 4) + 0.08 cos(4 pi n / 4)
\* for n = 0..3, that is 0, 0.34, 1, 0.34, in 1/50
blackman == << 0, 17, 50, 17 >>

\* the value 1.0 of a window table entry
CoefOne == rectangular[1]

\* WindowFn::apply(n), n counted from 1
apply(fn, n) == IF fn = "blackman" THEN blackman[n] ELSE rectangular[n]

RECURSIVE Gcd(_, _)
Gcd(a, b) == IF b = 0 THEN a ELSE Gcd(b, a % b)

\* fractions << num, den >> with den > 0, kept in lowest terms
Frac(num, den) ==
    LET g == Gcd(Abs(num), den) IN << num \div g, den \div g >>

FracAdd(x, y) ==
    LET l == (x[2] * y[2]) \div Gcd(x[2], y[2])
    IN Frac(x[1] * (l \div x[2]) + y[1] * (l \div y[2]), l)

FracMul(x, y) ==
    LET a == Frac(x[1], y[2])
        b == Frac(y[1], x[2])
    IN Frac(a[1] * b[1], a[2] * b[2])

FracAbs(x) == << Abs(x[1]), x[2] >>

FracLess(x, y) == x[1] * y[2] < y[1] * x[2]

RECURSIVE SumSeq(_)
SumSeq(seq) == IF seq = << >> THEN 0 ELSE Head(seq) + SumSeq(Tail(seq))

\* Faulty variant of oscillator_push_pixel_value: past the window the
\* variance is updated with the average as it was before the push.
oscillator_push_pixel_value_stale_average(window, st, value) ==
    LET pushed == Append(st.state, value)
    IN  IF Len(pushed) < window
        THEN [ st EXCEPT !.state = pushed ]
        ELSE IF Len(pushed) = window
        THEN LET total == SumSeq(pushed)
                 deviation == SumSeq([ i \in 1..Len(pushed) |->
                                         Abs(window * pushed[i] - total) ])
             IN [ state |-> pushed,
                  average |-> Frac(total, window),
                  variance |-> Frac(deviation, window * window) ]
        ELSE LET gray == << value, 1 >>
                 update_fraction == Frac(window - 1, window)
                 average == FracAdd(FracMul(gray, << 1, window >>),
                                    FracMul(st.average, update_fraction))
                 variance ==
                     FracAdd(FracMul(FracAbs(FracAdd(st.average,
                                                     << -value, 1 >>)),
                                     << 1, window >>),
                             FracMul(st.variance, update_fraction))
             IN [ state |-> pushed, average |-> average, variance |-> variance ]

\* Oscillator::push_pixel_value of an oscillator whose window_fn.size() is
\* `window`: the new state, average and variance.
oscillator_push_pixel_value(window, st, value) ==
    LET pushed == Append(st.state, value)
    IN  IF Len(pushed) < window
        THEN [ st EXCEPT !.state = pushed ]
        ELSE IF Len(pushed) = window
        THEN LET total == SumSeq(pushed)
                 \* sum of |v - average|, times window
                 deviation == SumSeq([ i \in 1..Len(pushed) |->
                                         Abs(window * pushed[i] - total) ])
             IN [ state |-> pushed,
                  average |-> Frac(total, window),
                  variance |-> Frac(deviation, window * window) ]
        ELSE LET gray == << value, 1 >>
                 update_fraction == Frac(window - 1, window)
                 average == FracAdd(FracMul(gray, << 1, window >>),
                                    FracMul(st.average, update_fraction))
                 variance ==
                     FracAdd(FracMul(FracAbs(FracAdd(average, << -value, 1 >>)),
                                     << 1, window >>),
                             FracMul(st.variance, update_fraction))
             IN [ state |-> pushed, average |-> average, variance |-> variance ]

\* Oscillator::push_pixel_value of the oscillator under study
push_pixel_value(st, value) == oscillator_push_pixel_value(OscWindow, st, value)

\* Vec::copy_within(from.., 0), `from` counted from 0: the elements from
\* index `from` to the end are copied to the start.
copy_within(vec, from) ==
    [ i \in 1..Len(vec) |-> IF i <= Len(vec) - from THEN vec[from + i] ELSE vec[i] ]

\* Vec::truncate(n)
truncate(vec, n) == IF Len(vec) > n THEN SubSeq(vec, 1, n) ELSE vec

\* Faulty variant of oscillator_truncate_state: the samples are moved to the
\* front but the vector keeps its length (no Vec::truncate).
oscillator_truncate_state_keeping_len(window, vec) ==
    LET len == Len(vec)
    IN IF len > window
       THEN copy_within(vec, len - window - 1)
       ELSE vec

\* Faulty variant of oscillator_truncate_state: one sample too few is kept.
oscillator_truncate_state_short(window, vec) ==
    LET len == Len(vec)
    IN IF len > window
       THEN truncate(copy_within(vec, len - window - 1), window - 1)
       ELSE vec

\* Oscillator::truncate_state of an oscillator whose window_fn.size() is
\* `window`
oscillator_truncate_state(window, vec) ==
    LET len == Len(vec)
    IN IF len > window
       THEN truncate(copy_within(vec, len - window - 1), window)
       ELSE vec

\* Oscillator::truncate_state of the oscillator under study
truncate_state(vec) == oscillator_truncate_state(OscWindow, vec)

\* Oscillator::populate_buffer_with_state: the last `window` samples, each
\* times its window table entry.
populate_buffer_with_state(vec, fn) ==
    [ index \in 1..OscWindow |->
        << vec[Len(vec) - OscWindow + index] * apply(fn, index), 0 >> ]

\* Fft::process_with_scratch of the planned forward FFT of size 4
\* (unnormalised): X[k] = sum over n of x[n] * (-i)^(k n), for real x.
fft(buf) ==
    LET x == [ n \in 1..4 |-> buf[n][1] ]
    IN << << x[1] + x[2] + x[3] + x[4], 0 >>,
          << x[1] - x[3], x[4] - x[2] >>,
          << x[1] - x[2] + x[3] - x[4], 0 >>,
          << x[1] - x[3], x[2] - x[4] >> >>

\* Complex::norm, squared
norm_sqr(c) == c[1] * c[1] + c[2] * c[2]

RECURSIVE max_by(_, _, _)
\* Iterator::max_by with the closure of largest_bin, folded over the
\* candidates `items` (pairs << index, squared magnitude >>) from position n
\* with `best` the element kept so far: the closure answers Less when
\* best < next, and then the next element is taken; otherwise it answers
\* Greater and the one kept so far stays.
max_by(items, n, best) ==
    IF n > Len(items) THEN best
    ELSE max_by(items, n + 1, IF best[2] < items[n][2] THEN items[n] ELSE best)

\* Faulty variant of largest_bin: the position among the bins after the
\* dropped DC bin is returned as it is (no k + 1).
largest_bin_unshifted(window, lo, hi, bins) ==
    LET \* let _dc = bins.next();  then  .take(window / 2)
        taken == IF Len(bins) - 1 < window \div 2
                 THEN Len(bins) - 1 ELSE window \div 2
        \* .enumerate(): index e counted from 0 is the bin e + 1 of the FFT
        mags == [ e \in 0..(taken - 1) |-> norm_sqr(bins[e + 2]) ]
        \* .skip(lo).take(relevant_bins.count())
        count == IF lo <= hi THEN hi - lo + 1 ELSE 0
        kept == SortedSeq({ e \in 0..(taken - 1) : lo <= e /\ e < lo + count })
        items == [ i \in 1..Len(kept) |-> << kept[i], mags[kept[i]] >> ]
        \* mag / window > MAGNITUDE_THRESHOLD, squared
        limit == MAGNITUDE_THRESHOLD * window * CoefOne
    IN  IF items = << >> THEN None
        ELSE LET best == max_by(items, 2, items[1])
             IN IF best[2] > limit * limit
                THEN Some(best[1])
                ELSE None

\* largest_bin(window, lo..=hi, bins)
largest_bin(window, lo, hi, bins) ==
    LET \* let _dc = bins.next();  then  .take(window / 2)
        taken == IF Len(bins) - 1 < window \div 2
                 THEN Len(bins) - 1 ELSE window \div 2
        \* .enumerate(): index e counted from 0 is the bin e + 1 of the FFT
        mags == [ e \in 0..(taken - 1) |-> norm_sqr(bins[e + 2]) ]
        \* .skip(lo).take(relevant_bins.count())
        count == IF lo <= hi THEN hi - lo + 1 ELSE 0
        kept == SortedSeq({ e \in 0..(taken - 1) : lo <= e /\ e < lo + count })
        items == [ i \in 1..Len(kept) |-> << kept[i], mags[kept[i]] >> ]
        \* mag / window > MAGNITUDE_THRESHOLD, squared
        limit == MAGNITUDE_THRESHOLD * window * CoefOne
    IN  IF items = << >> THEN None
        ELSE LET best == max_by(items, 2, items[1])
             IN IF best[2] > limit * limit
                THEN Some(best[1] + 1)   \* .map(|(k, _)| k + 1)
                ELSE None

\* Faulty variant of frequency_bin: no deviation gate (variance < 10.0 is not
\* checked).
frequency_bin_without_deviation_gate(st, fn, lo, hi) ==
    IF OscWindow > Len(st.state) THEN None
    ELSE largest_bin(OscWindow, lo, hi,
                     fft(populate_buffer_with_state(st.state, fn)))

\* Oscillator::frequency_bin(lo..=hi, scratch_a, scratch_b)
frequency_bin(st, fn, lo, hi) ==
    IF OscWindow > Len(st.state) THEN None
    ELSE IF FracLess(st.variance, << 10, 1 >>) THEN None
    ELSE largest_bin(OscWindow, lo, hi,
                     fft(populate_buffer_with_state(st.state, fn)))

PushPixelValue(value) ==
    /\ pushes < MaxPushes
    /\ LET st == push_pixel_value(
                    [ state |-> state, average |-> stats.average,
                      variance |-> stats.variance ], value)
       IN /\ state' = st.state
          /\ stats' = [ average |-> st.average, variance |-> st.variance ]
    /\ pushes' = pushes + 1
    /\ pushedValues' = pushedValues \cup {value}
    /\ UNCHANGED << window_fn, lastQuery, trackerVars, frameVars,
                    analyzerVars, pipeVars >>

TruncateState ==
    /\ state' = truncate_state(state)
    /\ UNCHANGED << window_fn, stats, pushes, lastQuery, pushedValues,
                    trackerVars, frameVars, analyzerVars, pipeVars >>

FrequencyBin(lo, hi) ==
    /\ lastQuery' =
          [ op |-> "frequency_bin", relevant_bins |-> << lo, hi >>,
            result |-> frequency_bin(
                          [ state |-> state, average |-> stats.average,
                            variance |-> stats.variance ], window_fn, lo, hi) ]
    /\ UNCHANGED << state, window_fn, stats, pushes, pushedValues,
                    trackerVars, frameVars, analyzerVars, pipeVars >>

OscNext ==
    \/ \E value \in Samples : PushPixelValue(value)
    \/ TruncateState
    \/ \E lo \in 0..MaxBin : \E hi \in lo..MaxBin : FrequencyBin(lo, hi)

(***************************************************************************)
(* Analyzer  (src/src/frequency.rs)                                        *)
(*                                                                         *)
(* Analyzer::frequency is a function of the analyzer's frame rate and      *)
(* window and of what each oscillator answers; frequencies are exact       *)
(* fractions << num, den >> of a Hz.                                       *)
(***************************************************************************)
MIN_OSCILLATORS_AGREEMENT_RATIO == << 1, 2 >>
LOWEST_FREQUENCY_OF_INTEREST == << 4, 5 >>
HIGHEST_FREQUENCY_OF_INTEREST == << 4, 1 >>

\* oscillators of the analyzer under study
NumOscillators == 3

\* frame rates of the analyzer under study: at 4 the bin window / 2 is inside
\* the relevant range, at 9 it is not
AnalyzerFrameRates == {4, 9}

\* largest window of the analyzer under study
MaxAnalyzerWindow == 48

\* (f * window / frame_rate).floor() as usize
frequency_to_bin(frame_rate, window, f) ==
    (f[1] * window) \div (f[2] * frame_rate)

\* (bin * frame_rate) as f32 / window as f32
bin_to_frequency(frame_rate, window, bin) == Frac(bin * frame_rate, window)

\* FFT output of `window` bins whose only energy is at the true bin `peak`,
\* above the magnitude threshold
spectrum_peaking_at(window, peak) ==
    [ j \in 1..window |->
        IF j = peak + 1
        THEN << MAGNITUDE_THRESHOLD * window * CoefOne + 1, 0 >>
        ELSE << 0, 0 >> ]

\* What oscillator.frequency_bin(relevant_bins.clone(), a, b) can return to
\* the analyzer: None, or what largest_bin finds in some spectrum.
frequency_bin_answers(frame_rate, window) ==
    LET lo == frequency_to_bin(frame_rate, window, LOWEST_FREQUENCY_OF_INTEREST)
        hi == frequency_to_bin(frame_rate, window, HIGHEST_FREQUENCY_OF_INTEREST)
    IN {None} \cup { largest_bin(window, lo, hi,
                                 spectrum_peaking_at(window, peak)) :
                       peak \in 0..(window - 1) }

RECURSIVE max_by_key(_, _, _)
\* Iterator::max_by_key over items << position, key >>: of several items
\* with the largest key the last one is returned.
max_by_key(items, n, best) ==
    IF n > Len(items) THEN best
    ELSE max_by_key(items, n + 1,
                    IF items[n][2] >= best[2] THEN items[n] ELSE best)

\* largest_couple_oscillators_count / oscillator_count as f32
\*     > MIN_OSCILLATORS_AGREEMENT_RATIO
\* 0 / 0 is NaN, and NaN > 0.5 is false.
agreement(couple_count, oscillator_count) ==
    /\ oscillator_count # 0
    /\ FracLess(MIN_OSCILLATORS_AGREEMENT_RATIO,
                Frac(couple_count, oscillator_count))

\* Analyzer::frequency; votes[i] is what oscillator i answers.  The result
\* records whether the call panics and, if not, the Option<f32> returned.
frequency(frame_rate, window, votes) ==
    LET len == window \div 2      \* bins_count.resize(self.window / 2, 0)
        voted == { i \in DOMAIN votes : votes[i] # None }
    IN IF \E i \in voted : votes[i][1] >= len
       THEN \* bins_count[bin] += 1: index out of bounds
            [ panics |-> TRUE, value |-> None ]
       ELSE IF len < 2
       THEN \* windows(2) is empty: max_by_key is None, unwrap panics
            [ panics |-> TRUE, value |-> None ]
       ELSE LET bins_count == [ b \in 0..(len - 1) |->
                                  Cardinality({ i \in voted : votes[i][1] = b }) ]
                couples == [ k \in 1..(len - 1) |->
                               << k - 1, bins_count[k - 1] + bins_count[k] >> ]
                best == max_by_key(couples, 2, couples[1])
                bin1 == best[1]
                largest_couple_oscillators_count == best[2]
                oscillator_count == SumSeq([ k \in 1..len |-> bins_count[k - 1] ])
            IN IF agreement(largest_couple_oscillators_count, oscillator_count)
               THEN LET f1 == bin_to_frequency(frame_rate, window, bin1)
                        f1_share == Frac(bins_count[bin1],
                                         largest_couple_oscillators_count)
                        f2 == bin_to_frequency(frame_rate, window, bin1 + 1)
                        f2_share == Frac(bins_count[bin1 + 1],
                                         largest_couple_oscillators_count)
                    IN [ panics |-> FALSE,
                         value |-> Some(FracAdd(FracMul(f1, f1_share),
                                                FracMul(f2, f2_share))) ]
               ELSE [ panics |-> FALSE, value |-> None ]

\* analyzer.frequency() of an analyzer built by Analyzer::new(frame_rate,
\* frame_rate * multiplier) whose oscillators answer `votes`.  The call keeps
\* nothing between calls; the model follows one call.
AnalyzerFrequency(frame_rate, multiplier, votes) ==
    /\ lastEstimate = None
    /\ lastEstimate' =
          Some([ frame_rate |-> frame_rate,
                 window |-> frame_rate * multiplier,
                 votes |-> votes,
                 result |-> frequency(frame_rate, frame_rate * multiplier,
                                      votes) ])
    /\ UNCHANGED << trackerVars, frameVars, oscVars, pipeVars >>

AnalyzerNext ==
    \E frame_rate \in AnalyzerFrameRates :
        \E multiplier \in { m \in WINDOW_MULTIPLIERS :
                               frame_rate * m <= MaxAnalyzerWindow } :
            \E votes \in [ 1..NumOscillators ->
                             frequency_bin_answers(frame_rate,
                                                   frame_rate * multiplier) ] :
                AnalyzerFrequency(frame_rate, multiplier, votes)

(***************************************************************************)
(* The analyzer thread  (analyzer_channel, src/src/frequency.rs)           *)
(*                                                                         *)
(* A worker is the thread analyzer_channel spawns together with its two    *)
(* channels.  The i-th change-frame sent is modelled by its number i, and  *)
(* a sample of an oscillator by the number of the frame it is derived      *)
(* from; every oscillator of one analyzer is pushed and truncated on the   *)
(* same frames, so one buffer stands for them all.  What                   *)
(* Analyzer::frequency returns depends on the pixels and is an input of    *)
(* the loop iteration, limited by what the buffers allow.                  *)
(***************************************************************************)
REPORT_FREQUENCY_AFTER_MS == 250
TRUNCATE_STATE_AFTER_MS == 2000

\* largest frame rate a worker is built with
MaxWorkerFrameRate == 4
\* frames the client of one worker sends before the model stops it
MaxWorkerFrames == 26
\* reports waiting in a report channel before the model holds the worker
MaxPending == 2

\* frequencies an estimate takes in the model, in 1/FreqUnit Hz
EstimateValues == {1, 3}

\* (REPORT_FREQUENCY_AFTER_MS as f32 * frames_per_ms) as usize, with
\* frames_per_ms = frame_rate / 1000: the product truncated.  (The f32
\* arithmetic gives the same integer for every frame rate up to 250.)
update_frequency_every_nth_frame(frame_rate) ==
    (REPORT_FREQUENCY_AFTER_MS * frame_rate) \div 1000

\* (TRUNCATE_STATE_AFTER_MS as f32 * frames_per_ms) as usize
truncate_state_every_nth_frame(frame_rate) ==
    (TRUNCATE_STATE_AFTER_MS * frame_rate) \div 1000

\* Faulty variant of frequency_outcomes: an estimate can exist before the
\* buffers hold a whole window.
frequency_outcomes_without_warm_up(frame_rate, window, len) ==
    { [ panics |-> FALSE, value |-> None ] }
    \cup { [ panics |-> FALSE, value |-> Some(f) ] : f \in EstimateValues }

\* What analyzer.frequency() can do in a loop iteration, given the length of
\* the oscillators' buffers: while window > state.len() every
\* Oscillator::frequency_bin returns None and so does frequency(); afterwards
\* it returns None or Some(f), or panics at bins_count[bin] when an
\* oscillator can answer the bin window / 2.
frequency_outcomes(frame_rate, window, len) ==
    IF len < window
    THEN { [ panics |-> FALSE, value |-> None ] }
    ELSE { [ panics |-> FALSE, value |-> None ] }
         \cup { [ panics |-> FALSE, value |-> Some(f) ] : f \in EstimateValues }
         \cup (IF Some(window \div 2)
                     \in frequency_bin_answers(frame_rate, window)
               THEN { [ panics |-> TRUE, value |-> None ] }
               ELSE {})

\* Faulty variant of send: the message overtakes the ones that wait.
send_to_front(queue, message) == << message >> \o queue

\* Sender::send on a channel whose Receiver exists: the message is queued
\* behind the ones that wait (mpsc channels are first in, first out)
send(queue, message) == Append(queue, message)

\* the worker a call of analyzer_channel(builder) creates
new_worker(frame_rate, window) ==
    [ frame_rate |-> frame_rate,
      window |-> window,
      frames |-> << >>,          \* frames queued in the frame channel
      frame_sender |-> TRUE,     \* the Sender of the frame channel exists
      reports |-> << >>,         \* reports queued in the report channel
      frequency_recv |-> TRUE,   \* the Receiver of the report channel exists
      frame_index |-> 0,         \* the index enumerate() gives the next frame
      state |-> << >>,           \* Oscillator.state, by frame number
      status |-> "running",      \* "running", "finished" or "panicked"
      panic |-> "",              \* the panic message
      pushed |-> << >>,          \* log: the frames pushed, in order
      sent |-> None,             \* log: the last Report sent
      step |-> [ frame_index |-> 0, after_push |-> 0, evaluated |-> FALSE,
                 estimate |-> None, emitted |-> FALSE, truncated |-> FALSE,
                 after_truncate |-> 0 ] ]   \* log: the last iteration

\* Faulty variant of new_report: the frame index counts from the start of
\* the window the frame falls in.
new_report_within_window(window, frame_index, f) ==
    [ window |-> window, frame_index |-> frame_index % window, frequency |-> f ]

\* Report { frame_index, frequency: f, window }
new_report(window, frame_index, f) ==
    [ window |-> window, frame_index |-> frame_index, frequency |-> f ]

\* the thread panics: its frame Receiver and report Sender are dropped
panicked(w, message) ==
    [ w EXCEPT !.status = "panicked", !.panic = message, !.frames = << >> ]

\* One iteration of `while let Some((frame_index, frame)) = frames.next()`
\* for the frame at the head of the channel; `outcome` is what
\* analyzer.frequency() does if it is called.
loop_body(w, outcome) ==
    LET frame == Head(w.frames)
        frame_index == w.frame_index
        \* analyzer.push_pixel_values_to_oscillators(&frame)
        after_push == Append(w.state, frame)
        taken == [ w EXCEPT !.frames = Tail(w.frames),
                            !.frame_index = frame_index + 1,
                            !.state = after_push,
                            !.pushed = Append(w.pushed, frame) ]
        log == [ frame_index |-> frame_index, after_push |-> Len(after_push),
                 evaluated |-> FALSE, estimate |-> None, emitted |-> FALSE,
                 truncated |-> FALSE, after_truncate |-> Len(after_push) ]
        n == update_frequency_every_nth_frame(w.frame_rate)
        t == truncate_state_every_nth_frame(w.frame_rate)
    IN IF n = 0
       THEN \* frame_index % 0
            panicked([ taken EXCEPT !.step = log ],
                     "attempt to calculate the remainder with a divisor of zero")
       ELSE LET evaluated == frame_index % n = 0
            IN IF evaluated /\ outcome.panics
               THEN panicked([ taken EXCEPT !.step =
                                  [ log EXCEPT !.evaluated = TRUE ] ],
                             "index out of bounds")
               ELSE LET estimate == IF evaluated THEN outcome.value ELSE None
                        report == new_report(w.window, frame_index,
                                             IF estimate = None THEN 0
                                             ELSE estimate[1])
                        log2 == [ log EXCEPT !.evaluated = evaluated,
                                             !.estimate = estimate ]
                    IN IF estimate # None /\ ~w.frequency_recv
                       THEN \* send(..) is Err: .expect("Channel died")
                            panicked([ taken EXCEPT !.step = log2 ],
                                     "Channel died")
                       ELSE IF t = 0
                       THEN panicked([ taken EXCEPT !.step = log2 ],
                                     "attempt to calculate the remainder with a divisor of zero")
                       ELSE LET truncated == frame_index % t = 0
                                kept == IF truncated
                                        THEN oscillator_truncate_state(
                                                 w.window, after_push)
                                        ELSE after_push
                            IN [ taken EXCEPT
                                   !.state = kept,
                                   !.reports = IF estimate # None
                                               THEN send(@, report) ELSE @,
                                   !.sent = IF estimate # None
                                            THEN Some(report) ELSE @,
                                   !.step = [ log2 EXCEPT
                                                !.emitted = estimate # None,
                                                !.truncated = truncated,
                                                !.after_truncate = Len(kept) ] ]

\* analyzer_channel(builder), called by a client that drives one worker
AnalyzerChannel(frame_rate, multiplier) ==
    /\ workers = << >>
    /\ orchestrator.status = "unstarted"
    /\ workers' = (multiplier :> new_worker(frame_rate, frame_rate * multiplier))
    /\ UNCHANGED << orchestrator, trackerVars, frameVars, oscVars, analyzerVars >>

\* the client sends the next frame: frame_sender.send(frame)
SendFrame(m) ==
    /\ m \in DOMAIN workers
    /\ workers[m].frame_sender
    /\ workers[m].status = "running"
    /\ Len(workers[m].pushed) + Len(workers[m].frames) < MaxWorkerFrames
    /\ workers' = [ workers EXCEPT ![m].frames =
                      send(@, Len(workers[m].pushed) + Len(@) + 1) ]
    /\ UNCHANGED << orchestrator, trackerVars, frameVars, oscVars, analyzerVars >>

\* the client drops the Sender of the frame channel
DropFrameSender(m) ==
    /\ m \in DOMAIN workers
    /\ workers[m].frame_sender
    /\ workers' = [ workers EXCEPT ![m].frame_sender = FALSE ]
    /\ UNCHANGED << orchestrator, trackerVars, frameVars, oscVars, analyzerVars >>

\* the client takes what the report channel holds: frequency_recv.try_iter()
TryIter(m) ==
    /\ m \in DOMAIN workers
    /\ workers[m].frequency_recv
    /\ workers[m].reports # << >>
    /\ workers' = [ workers EXCEPT ![m].reports = << >> ]
    /\ UNCHANGED << orchestrator, trackerVars, frameVars, oscVars, analyzerVars >>

\* the client drops the Receiver of the report channel
DropFrequencyRecv(m) ==
    /\ m \in DOMAIN workers
    /\ workers[m].frequency_recv
    /\ workers' = [ workers EXCEPT ![m].frequency_recv = FALSE,
                                   ![m].reports = << >> ]
    /\ UNCHANGED << orchestrator, trackerVars, frameVars, oscVars, analyzerVars >>

\* the thread of worker m takes the next frame and runs the loop body
WorkerLoop(m) ==
    /\ m \in DOMAIN workers
    /\ workers[m].status = "running"
    /\ workers[m].frames # << >>
    /\ Len(workers[m].reports) < MaxPending
    /\ \E outcome \in frequency_outcomes(workers[m].frame_rate,
                                         workers[m].window,
                                         Len(workers[m].state) + 1) :
          workers' = [ workers EXCEPT ![m] = loop_body(@, outcome) ]
    /\ UNCHANGED << orchestrator, trackerVars, frameVars, oscVars, analyzerVars >>

\* frames.next() is None: the channel is empty and its Sender is gone; the
\* loop and the thread end
WorkerExit(m) ==
    /\ m \in DOMAIN workers
    /\ workers[m].status = "running"
    /\ workers[m].frames = << >>
    /\ ~workers[m].frame_sender
    /\ workers' = [ workers EXCEPT ![m].status = "finished" ]
    /\ UNCHANGED << orchestrator, trackerVars, frameVars, oscVars, analyzerVars >>

WorkerNext ==
    \/ \E frame_rate \in 1..MaxWorkerFrameRate, multiplier \in WINDOW_MULTIPLIERS :
          AnalyzerChannel(frame_rate, multiplier)
    \/ \E m \in WINDOW_MULTIPLIERS :
          \/ SendFrame(m)
          \/ DropFrameSender(m)
          \/ TryIter(m)
          \/ DropFrequencyRecv(m)
          \/ WorkerLoop(m)
          \/ WorkerExit(m)

(***************************************************************************)
(* The orchestrator  (start_video_analysis, src/src/main.rs)               *)
(*                                                                         *)
(* The thread builds one worker per multiplier, then for every change-     *)
(* frame of the source sends it to every worker and takes the newest       *)
(* Report out of every report channel into the FrequencyTracker.  When the *)
(* source ends the thread ends and its channel ends are dropped.           *)
(***************************************************************************)
\* change-frames the source yields before the model stops it
MaxStream == 17

\* the multipliers in the order of the channels vector
channels == SortedSeq(WINDOW_MULTIPLIERS)

\* the thread ends (by return or by panic): `channels` is dropped, that is
\* every frame Sender and every report Receiver
drop_channels(ws) ==
    [ m \in DOMAIN ws |->
        [ ws[m] EXCEPT !.frame_sender = FALSE, !.frequency_recv = FALSE,
                       !.reports = << >> ] ]

\* let frame_rate = frames.frame_rate(); FrequencyTracker::new(frame_rate);
\* one analyzer_channel per multiplier
StartVideoAnalysis(frame_rate) ==
    /\ orchestrator.status = "unstarted"
    /\ workers = << >>
    /\ workers' = [ m \in WINDOW_MULTIPLIERS |->
                      new_worker(frame_rate, frame_rate * m) ]
    /\ orchestrator' = [ status |-> "broadcast", frame_rate |-> frame_rate,
                         produced |-> 0, drained |-> 0, dropped |-> 0 ]
    /\ UNCHANGED << trackerVars, frameVars, oscVars, analyzerVars >>

\* `for frame in frames` yields the next change-frame, and
\* channels.iter().for_each(|(frame_sender, _)| frame_sender.send(..)
\* .expect("Channel dead")): the sends happen in the order of `channels`, and
\* the first one whose worker has ended panics the thread.
Broadcast ==
    /\ orchestrator.status = "broadcast"
    /\ orchestrator.produced < MaxStream
    /\ LET frame == orchestrator.produced + 1
           dead == { i \in 1..Len(channels) :
                       workers[channels[i]].status # "running" }
           reached == IF dead = {} THEN Len(channels)
                      ELSE (CHOOSE i \in dead : \A j \in dead : i <= j) - 1
           sent_to == [ m \in DOMAIN workers |->
                          IF \E i \in 1..reached : channels[i] = m
                          THEN [ workers[m] EXCEPT !.frames = send(@, frame) ]
                          ELSE workers[m] ]
       IN IF dead = {}
          THEN /\ workers' = sent_to
               /\ orchestrator' = [ orchestrator EXCEPT
                                      !.status = "drain",
                                      !.produced = frame,
                                      !.drained = 0 ]
          ELSE /\ workers' = drop_channels(sent_to)
               /\ orchestrator' = [ orchestrator EXCEPT
                                      !.status = "panicked",
                                      !.produced = frame ]
    /\ UNCHANGED << trackerVars, frameVars, oscVars, analyzerVars >>

\* Faulty variant of try_iter_last: the Report that has waited longest is taken.
oldest(waiting) == waiting[1]

\* frequency_recv.try_iter().last(): of the Reports that wait, the one sent last
try_iter_last(waiting) == waiting[Len(waiting)]

\* One round of `for (_, frequency_recv) in &channels`:
\* if let Some(report) = frequency_recv.try_iter().last()
\*     { frequency_tracker.update(report) }
Drain ==
    /\ orchestrator.status = "drain"
    /\ LET m == channels[orchestrator.drained + 1]
           waiting == workers[m].reports
       IN /\ workers' = [ workers EXCEPT ![m].reports = << >> ]
          /\ IF waiting = << >>
             THEN UNCHANGED trackerVars
             ELSE LET report == try_iter_last(waiting)
                  IN /\ inner' = insert(inner, report)
                     /\ lastCall' = [ op |-> "update", report |-> Some(report),
                                      result |-> None ]
    /\ LET waiting == workers[channels[orchestrator.drained + 1]].reports
           \* log: the older Reports that try_iter().last() passed over
           dropped == IF waiting = << >> THEN 0 ELSE Len(waiting) - 1
       IN orchestrator' =
             IF orchestrator.drained + 1 = Len(channels)
             THEN [ orchestrator EXCEPT !.status = "broadcast", !.drained = 0,
                                        !.dropped = dropped ]
             ELSE [ orchestrator EXCEPT !.drained = @ + 1,
                                        !.dropped = dropped ]
    /\ UNCHANGED << frameVars, oscVars, analyzerVars >>

\* `for frame in frames` gets None: the loop and the closure end
StreamEnd ==
    /\ orchestrator.status = "broadcast"
    /\ orchestrator' = [ orchestrator EXCEPT !.status = "ended" ]
    /\ workers' = drop_channels(workers)
    /\ UNCHANGED << trackerVars, frameVars, oscVars, analyzerVars >>

PipelineNext ==
    \/ \E frame_rate \in 1..MaxWorkerFrameRate : StartVideoAnalysis(frame_rate)
    \/ Broadcast
    \/ Drain
    \/ StreamEnd
    \/ \E m \in WINDOW_MULTIPLIERS :
          \/ WorkerLoop(m)
          \/ WorkerExit(m)

(***************************************************************************)
(* From the pixels to the Report  (src/src/frame.rs, frequency.rs,         *)
(* oscillator.rs, main.rs)                                                 *)
(*                                                                         *)
(* One worker is followed from the source frames on.  A frame is the       *)
(* VIEW_SIZE x VIEW_SIZE square of pixels that one oscillator watches      *)
(* (FrameIter differences every pixel on its own, so the other pixels do   *)
(* not bear on it), and the analyzer has this one oscillator.  The worker  *)
(* keeps the frames by number as before; the sample of frame i is read off *)
(* the i-th change-frame FrameIter emitted.  The FFT of a window this size *)
(* is not computed: once the oscillator passes its two gates it can answer *)
(* whatever bin the range allows.                                          *)
(***************************************************************************)
VIEW_SIZE == 2

\* source frames the model reads before it stops
MaxVideoFrames == 17
\* source frames that differ from the frame before them
MaxSceneChanges == 2
\* frames waiting in the frame channel before the model holds the source
MaxQueued == 1

\* the square as a raw buffer: p(x, y), p(x, y + 1), p(x + 1, y),
\* p(x + 1, y + 1); black or white
VideoFrames == { [ i \in 1..(VIEW_SIZE * VIEW_SIZE) |-> v ] : v \in {0, 255} }

\* let val = ((p(x, y) + p(x, y + 1) + p(x + 1, y) + p(x + 1, y + 1))
\*            / VIEW_SIZE) as u8, the sum and the quotient in u32
val(frame) ==
    ((frame[1] + frame[2] + frame[3] + frame[4]) \div VIEW_SIZE) % 256

\* Oscillator::new: empty state, average 0.0, variance 0.0
new_oscillator ==
    [ state |-> << >>, average |-> << 0, 1 >>, variance |-> << 0, 1 >> ]

RECURSIVE pushed_oscillator(_, _)
\* the oscillator after push_pixel_value of each of `samples` in order.
\* (truncate_state in between changes neither average nor variance, and never
\* takes the length below the window once it was reached, so the branch a
\* push takes is the same with and without it.)
pushed_oscillator(window, samples) ==
    IF samples = << >> THEN new_oscillator
    ELSE oscillator_push_pixel_value(
             window,
             pushed_oscillator(window, SubSeq(samples, 1, Len(samples) - 1)),
             samples[Len(samples)])

\* Faulty variant of below_deviation: the gate never closes.
never_below_deviation(st) == FALSE

\* if self.variance < 10.0 { return None; }
below_deviation(st) == FracLess(st.variance, << 10, 1 >>)

\* what analyzer.frequency() can do when its oscillator is `st` and the
\* buffer holds `len` samples: None when the oscillator answers None for
\* want of samples or of deviation, otherwise whatever the FFT gives
gated_frequency_outcomes(frame_rate, window, len, st) ==
    IF len < window \/ below_deviation(st)
    THEN { [ panics |-> FALSE, value |-> None ] }
    ELSE frequency_outcomes(frame_rate, window, len)

\* the samples of the frames `numbers`, read off the change-frames
samples_of(numbers) ==
    [ i \in 1..Len(numbers) |-> val(emitted[numbers[i]].frame) ]

\* source frames that differ from the frame before them
scene_changes ==
    Cardinality({ n \in 2..Len(source) : source[n].frame # source[n - 1].frame })

\* `for frame in frames` yields the next change-frame (FrameIter::next with a
\* frame the scaler converts) and it is sent to the worker
VideoFrame(m, frame) ==
    /\ m \in DOMAIN workers
    /\ workers[m].frame_sender
    /\ workers[m].status = "running"
    /\ ~iterDone
    /\ Len(source) < MaxVideoFrames
    /\ Len(workers[m].frames) < MaxQueued
    /\ (source # << >> /\ source[Len(source)].frame # frame)
          => scene_changes < MaxSceneChanges
    /\ LET r == difference_between_input_frame_and_previous_frame(
                    previous_frame, Some(frame))
       IN /\ previous_frame' = r.previous_frame
          /\ source' = Append(source, [ frame |-> frame, readable |-> TRUE ])
          /\ emitted' = Append(emitted, [ input |-> Len(source) + 1,
                                          frame |-> r.item[1] ])
          /\ iterDone' = FALSE
          /\ workers' = [ workers EXCEPT ![m].frames =
                            send(@, Len(emitted) + 1) ]
    /\ UNCHANGED << orchestrator, trackerVars, oscVars, analyzerVars >>

\* if let Some(report) = frequency_recv.try_iter().last()
\*     { frequency_tracker.update(report) }
VideoDrain(m) ==
    /\ m \in DOMAIN workers
    /\ workers[m].frequency_recv
    /\ workers[m].reports # << >>
    /\ LET waiting == workers[m].reports
           report == try_iter_last(waiting)
       IN /\ workers' = [ workers EXCEPT ![m].reports = << >> ]
          /\ inner' = insert(inner, report)
          /\ lastCall' = [ op |-> "update", report |-> Some(report),
                           result |-> None ]
    /\ UNCHANGED << orchestrator, frameVars, oscVars, analyzerVars >>

\* the thread of worker m takes the next frame and runs the loop body on its
\* pixels
VideoWorkerLoop(m) ==
    /\ m \in DOMAIN workers
    /\ workers[m].status = "running"
    /\ workers[m].frames # << >>
    /\ Len(workers[m].reports) < MaxPending
    /\ LET w == workers[m]
           st == pushed_oscillator(
                     w.window, samples_of(Append(w.pushed, Head(w.frames))))
       IN \E outcome \in gated_frequency_outcomes(
                             w.frame_rate, w.window, Len(w.state) + 1, st) :
             workers' = [ workers EXCEPT ![m] = loop_body(@, outcome) ]
    /\ UNCHANGED << orchestrator, trackerVars, frameVars, oscVars, analyzerVars >>

VideoNext ==
    \/ \E frame_rate \in 1..MaxWorkerFrameRate, multiplier \in WINDOW_MULTIPLIERS :
          AnalyzerChannel(frame_rate, multiplier)
    \/ \E m \in WINDOW_MULTIPLIERS :
          \/ \E frame \in VideoFrames : VideoFrame(m, frame)
          \/ VideoDrain(m)
          \/ VideoWorkerLoop(m)

(***************************************************************************)
(* Initial state and specifications                                        *)
(***************************************************************************)
Init ==
    /\ inner = << >>
    /\ lastCall = [ op |-> "none", report |-> None, result |-> None ]
    /\ previous_frame = None
    /\ source = << >>
    /\ emitted = << >>
    /\ iterDone = FALSE
    /\ state = << >>
    /\ window_fn \in {"rectangular", "blackman"}
    /\ stats = [ average |-> << 0, 1 >>, variance |-> << 0, 1 >> ]
    /\ pushes = 0
    /\ lastQuery = [ op |-> "none", relevant_bins |-> << 0, 0 >>,
                     result |-> None ]
    /\ pushedValues = {}
    /\ lastEstimate = None
    /\ workers = << >>
    /\ orchestrator = [ status |-> "unstarted", frame_rate |-> 0,
                        produced |-> 0, drained |-> 0, dropped |-> 0 ]

Next == TrackerNext \/ FrameNext \/ OscNext

\* the whole program
Spec == Init /\ [][Next]_vars

\* Analyzer::new builds its oscillators with WindowFn::blackman
InitAnalyzer == Init /\ window_fn = "blackman"

\* the components on their own; the oscillator on its own is built with
\* either table (the unit test uses WindowFn::rectangular)
SpecTracker == InitAnalyzer /\ [][TrackerNext]_vars
SpecFrame == InitAnalyzer /\ [][FrameNext]_vars
SpecOsc == Init /\ [][OscNext]_vars
SpecAnalyzer == InitAnalyzer /\ [][AnalyzerNext]_vars
SpecWorker == InitAnalyzer /\ [][WorkerNext]_vars
SpecPipeline == InitAnalyzer /\ [][PipelineNext]_vars
SpecVideo == InitAnalyzer /\ [][VideoNext]_vars

(***************************************************************************)
(* Properties of the FrequencyTracker                                      *)
(***************************************************************************)
\* the stored reports by ascending window, read off the map directly
Stored == [ i \in 1..Cardinality(DOMAIN inner) |->
              inner[CHOOSE w \in DOMAIN inner :
                      Cardinality({ v \in DOMAIN inner : v < w }) = i - 1] ]

Calculated == lastCall.op = "calculate_latest"

\* |a.frequency - b.frequency| < frame_rate / a.window
StrictlyWithin(a, b) ==
    Abs(b.frequency - a.frequency) * a.window < FrameRate * FreqUnit

\* a.frequency - s <= b.frequency < a.frequency + s, s = frame_rate / a.window
HalfOpenWithin(a, b) ==
    /\ (a.frequency - b.frequency) * a.window <= FrameRate * FreqUnit
    /\ (b.frequency - a.frequency) * a.window < FrameRate * FreqUnit

\* C1: whenever the tracker holds at least one Report, calculate_latest
\* returns a frequency, and with exactly one stored Report it returns that
\* Report's frequency.
C1_NonEmptyTrackerYieldsFrequency ==
    (Calculated /\ DOMAIN inner # {}) =>
        /\ lastCall.result # None
        /\ Len(Stored) = 1 => lastCall.result = Some(Stored[1].frequency)

\* C2: with exactly two stored Reports, calculate_latest returns the
\* frequency of the larger-window Report when the two frequencies differ by
\* less than frame_rate / R_small.window, and the frequency of the
\* smaller-window Report when they differ by more.
C2_TwoReportConsensus ==
    (Calculated /\ Len(Stored) = 2) =>
        LET R_small == Stored[1]
            R_mid == Stored[2]
            gap == Abs(R_mid.frequency - R_small.frequency) * R_small.window
        IN /\ gap < FrameRate * FreqUnit
                => lastCall.result = Some(R_mid.frequency)
           /\ gap > FrameRate * FreqUnit
                => lastCall.result = Some(R_small.frequency)

C4_UpdateStep ==
    /\ \A w \in DOMAIN inner : w \in DOMAIN inner'
    /\ \A w \in DOMAIN inner' : inner'[w].window = w
    /\ lastCall'.op = "update" =>
          LET report == lastCall'.report[1]
          IN /\ report.window \in DOMAIN inner'
             /\ inner'[report.window] = report
             /\ \A w \in Windows \ {report.window} :
                   /\ w \in DOMAIN inner' <=> w \in DOMAIN inner
                   /\ w \in DOMAIN inner => inner'[w] = inner[w]
    /\ lastCall'.op # "update" => inner' = inner

C4_LastWriterWins == [][C4_UpdateStep]_vars

\* C4 witness: every window has an entry, and the last call was an update
\* whose Report is the one now stored for its window.
C4_Witness ==
    /\ lastCall.op = "update"
    /\ DOMAIN inner = Windows
    /\ inner[lastCall.report[1].window] = lastCall.report[1]
    /\ lastCall.report[1].frame_index = MaxFrameIndex

Queried == lastQuery.op = "frequency_bin"

\* C6: a bin that frequency_bin returns for the inclusive range lo..=hi
\* lies inside that range.
C6_BinWithinRequestedRange ==
    (Queried /\ lastQuery.result # None) =>
        /\ lastQuery.relevant_bins[1] <= lastQuery.result[1]
        /\ lastQuery.result[1] <= lastQuery.relevant_bins[2]

\* C7: a bin k that frequency_bin returns satisfies 1 <= k < W/2, so that
\* counts[k] of a histogram of length W/2 exists.
C7_BinBelowHalfWindow ==
    (Queried /\ lastQuery.result # None) =>
        /\ 1 <= lastQuery.result[1]
        /\ lastQuery.result[1] < OscWindow \div 2

(***************************************************************************)
(* Properties of the frame differencer                                     *)
(***************************************************************************)
AllReadable == \A n \in 1..Len(source) : source[n].readable

ZeroFrame == [ i \in 1..NumPixels |-> 0 ]

\* C8: no change-frame is emitted for the first input frame and one for
\* every later one: after n >= 1 frames, n - 1 change-frames.
C8_NoOutputForFirstFrame ==
    (AllReadable /\ Len(source) >= 1) =>
        /\ Len(emitted) = Len(source) - 1
        /\ \A k \in 1..Len(emitted) : emitted[k].input # 1

Iterated(m) ==
    /\ m \in DOMAIN workers
    /\ m \in DOMAIN workers'
    /\ workers'[m].frame_index = workers[m].frame_index + 1

C11_BufferStep ==
    \A m \in WINDOW_MULTIPLIERS :
        Iterated(m) =>
            LET before == workers[m]
                after == workers'[m]
                W == after.window
            IN /\ W = after.frame_rate * m
               /\ Len(before.state) <= 2 * W
               /\ after.step.after_push = Len(before.state) + 1
               /\ after.step.after_push <= 2 * W
               /\ Len(after.state) <= 2 * W
               /\ after.status = "running" /\ ~after.step.truncated
                     => Len(after.state) = after.step.after_push
               /\ after.step.truncated
                     => /\ Len(after.state) <= W
                        /\ after.step.after_push > W => Len(after.state) = W
                        /\ after.step.after_push <= W
                              => Len(after.state) = after.step.after_push

\* C11: in a worker with window W = frame_rate * M, M in {4, 8, 12}, the
\* oscillator buffer never holds more than 2 W samples, neither between the
\* push and the truncation of an iteration nor after it; a push makes it
\* longer by exactly one; and right after a truncation it holds at most W
\* samples: exactly W if it held more before, as many as before otherwise.
C11_BufferLengthBounded == [][C11_BufferStep]_vars

\* a truncation that finds W plus a whole truncation interval of samples, the
\* longest the buffer gets, and leaves W
C11_Witness ==
    \E m \in DOMAIN workers :
        LET w == workers[m]
        IN /\ w.step.truncated
           /\ w.step.after_push =
                 w.window + truncate_state_every_nth_frame(w.frame_rate)
           /\ Len(w.state) = w.window

(***************************************************************************)
(* Properties of the Oscillator under constant and tonal input             *)
(***************************************************************************)
\* C12: as long as every sample pushed to the Oscillator has had the same
\* value, every frequency_bin query returns None, whatever pushes and
\* truncations came before it and whatever range it asks for.
C12_ConstantInputGivesNoBin ==
    (Queried /\ Cardinality(pushedValues) <= 1) => lastQuery.result = None

\* a query of a warmed-up, truncated oscillator that has only seen 255, built
\* with the Blackman table, over the widest range
C12_Witness ==
    /\ Queried
    /\ lastQuery.relevant_bins = << 0, MaxBin >>
    /\ pushedValues = {255}
    /\ window_fn = "blackman"
    /\ pushes > OscWindow
    /\ Len(state) = OscWindow

\* the buffers of exactly OscWindow samples that hold a pure tone of true bin
\* number k = f * W / R, sampled as round(A cos(2 pi f n / R + phase) + B):
\* for k = 1 one period over the window (phase an odd multiple of pi / 4),
\* for k = 2 the alternating tone at half the frame rate
ToneAt(k) ==
    UNION { IF k = 1
            THEN { << h, h, l, l >>, << l, h, h, l >>,
                   << l, l, h, h >>, << h, l, l, h >> }
            ELSE { << h, l, h, l >>, << l, h, l, h >> }
            : << h, l >> \in { p \in Samples \X Samples : p[1] > p[2] } }

\* what frequency_bin answers in the current state for the range lo..=hi
Answer(lo, hi) ==
    frequency_bin([ state |-> state, average |-> stats.average,
                    variance |-> stats.variance ], window_fn, lo, hi)

\* the squared magnitude of the FFT bin with true bin number j (0 is DC)
\* of the windowed buffer
MagnitudeOfBin(j) ==
    norm_sqr(fft(populate_buffer_with_state(state, window_fn))[j + 1])

Estimated == lastEstimate # None

\* oscillators that answered bin b, and oscillators that answered a bin
VotesFor(b) ==
    Cardinality({ i \in DOMAIN lastEstimate[1].votes :
                    lastEstimate[1].votes[i] = Some(b) })

TotalVotes ==
    Cardinality({ i \in DOMAIN lastEstimate[1].votes :
                    lastEstimate[1].votes[i] # None })

\* P: the largest vote count of two adjacent bins
LargestCouple ==
    LET sums == { VotesFor(k) + VotesFor(k + 1) :
                    k \in 0..(lastEstimate[1].window \div 2 - 1) }
    IN CHOOSE p \in sums : \A q \in sums : q <= p

\* C14: Analyzer::frequency reports a frequency exactly when the largest
\* adjacent-pair vote count P is strictly more than half of the total vote
\* count S; with no votes at all it reports unknown; it never fails.
C14_ReportsIffPairMajority ==
    Estimated =>
        /\ ~lastEstimate[1].result.panics
        /\ lastEstimate[1].result.value # None
              <=> 2 * LargestCouple > TotalVotes

\* What holds of the calls that return: the report is made exactly when
\* 2 P > S, and a call without votes returns None.
FrequencyFollowsMajorityWhenItReturns ==
    Estimated =>
        /\ ~lastEstimate[1].result.panics
              => (lastEstimate[1].result.value # None
                    <=> 2 * LargestCouple > TotalVotes)
        /\ TotalVotes = 0
              => /\ ~lastEstimate[1].result.panics
                 /\ lastEstimate[1].result.value = None

\* every oscillator that votes answers bin k
Unanimous(k) ==
    /\ TotalVotes > 0
    /\ VotesFor(k) = TotalVotes

\* C15: when every oscillator that votes answers the same bin k, whichever
\* bin an oscillator can answer, Analyzer::frequency reports exactly
\* f(k) = k * frame_rate / window.
C15_UnanimousBinGivesItsFrequency ==
    Estimated =>
        \A k \in 0..lastEstimate[1].window :
            Unanimous(k) =>
                /\ ~lastEstimate[1].result.panics
                /\ lastEstimate[1].result.value =
                      Some(bin_to_frequency(lastEstimate[1].frame_rate,
                                            lastEstimate[1].window, k))

\* What holds of the unanimous calls that return: the report is f(k).
UnanimousFrequencyWhenItReturns ==
    Estimated =>
        \A k \in 0..lastEstimate[1].window :
            (Unanimous(k) /\ ~lastEstimate[1].result.panics) =>
                lastEstimate[1].result.value =
                    Some(bin_to_frequency(lastEstimate[1].frame_rate,
                                          lastEstimate[1].window, k))

(***************************************************************************)
(* Properties of the analyzer thread's reports                             *)
(***************************************************************************)
\* the reporting interval in frames as the claim states it
ReportingInterval(frame_rate) ==
    LET n == (REPORT_FREQUENCY_AFTER_MS * frame_rate) \div 1000
    IN IF n < 1 THEN 1 ELSE n

RemainderByZero == "attempt to calculate the remainder with a divisor of zero"

\* C16: for every frame rate >= 1 a worker evaluates the estimate exactly on
\* the frames whose index is a multiple of n = max(1, floor(250 * frame_rate
\* / 1000)) and emits a Report exactly when the estimate exists; the interval
\* is never 0 and the check of the frame index never fails.
C16_ReportsEveryNthFrame ==
    \A m \in DOMAIN workers :
        LET w == workers[m]
        IN w.frame_index > 0 =>
              /\ w.panic # RemainderByZero
              /\ w.step.evaluated
                    <=> w.step.frame_index % ReportingInterval(w.frame_rate) = 0
              /\ w.step.emitted <=> w.step.estimate # None

\* What holds from 4 frames per second on, where floor(250 * frame_rate /
\* 1000) >= 1: the estimate is evaluated on the multiples of the interval,
\* and a Report is emitted when it exists and the report channel is open.
ReportCadenceFromFourFps ==
    \A m \in DOMAIN workers :
        LET w == workers[m]
        IN (w.frame_index > 0 /\ w.frame_rate >= 4) =>
              /\ w.panic # RemainderByZero
              /\ w.step.evaluated
                    <=> w.step.frame_index % ReportingInterval(w.frame_rate) = 0
              /\ w.panic # "Channel died"
                    => (w.step.emitted <=> w.step.estimate # None)

\* the frame indices of the reports of a channel grow strictly
StrictlyIncreasing(reports) ==
    \A i \in 1..(Len(reports) - 1) :
        reports[i].frame_index < reports[i + 1].frame_index

C17_EmitStep ==
    \A m \in WINDOW_MULTIPLIERS :
        Iterated(m) =>
            LET before == workers[m]
                after == workers'[m]
            IN /\ StrictlyIncreasing(after.reports)
               /\ \A i \in 1..Len(after.reports) :
                     after.reports[i].window = after.window
               /\ after.step.emitted
                     => /\ after.sent # None
                        /\ after.sent[1].window = after.frame_rate * m
                        /\ after.sent[1].frame_index = before.frame_index
                        /\ after.reports = Append(before.reports, after.sent[1])
                        /\ before.sent # None
                              => before.sent[1].frame_index
                                    < after.sent[1].frame_index
               /\ ~after.step.emitted
                     => /\ after.sent = before.sent
                        /\ after.reports = before.reports

\* C17: the Reports one worker emits carry strictly increasing frame_index,
\* each the index of the frame it was computed on, and every one of them
\* carries that worker's window W = frame_rate * M.
C17_ReportsInFrameOrder == [][C17_EmitStep]_vars

\* two Reports of one worker wait in its report channel
C17_Witness ==
    \E m \in DOMAIN workers :
        /\ Len(workers[m].reports) = 2
        /\ workers[m].sent = Some(workers[m].reports[2])
        /\ workers[m].reports[1].frame_index < workers[m].reports[2].frame_index

(***************************************************************************)
(* Properties of the pipeline                                              *)
(***************************************************************************)
SourceEnded == orchestrator.status = "ended"

\* every worker thread has ended
WorkersEnded ==
    /\ workers # << >>
    /\ \A m \in DOMAIN workers : workers[m].status # "running"

\* C18: once the frame source has ended, a worker that emits a Report while
\* it works off the frames still queued does not fail for it, and a worker
\* that has terminated has processed every frame that was sent.
C18_WorkersDrainAndFinish ==
    SourceEnded =>
        \A m \in DOMAIN workers :
            /\ workers[m].panic # "Channel died"
            /\ workers[m].status = "finished"
                  => Len(workers[m].pushed) = orchestrator.produced

\* the frames 1..n in order
FirstFrames(n) == [ i \in 1..n |-> i ]

\* C19: whatever the interleaving, a worker that has ingested j frames has
\* pushed exactly j samples to its oscillators, the i-th derived from the
\* i-th change-frame the source produced; and while the worker runs, what it
\* has ingested followed by what waits in its channel is, without gap or
\* repetition, what has been produced.
C19_WorkersIngestTheStreamInOrder ==
    \A m \in DOMAIN workers :
        LET w == workers[m]
        IN /\ w.frame_index = Len(w.pushed)
           /\ w.pushed = FirstFrames(w.frame_index)
           /\ w.frame_index <= orchestrator.produced
           /\ (w.status = "running" /\ orchestrator.status # "panicked")
                 => w.pushed \o w.frames = FirstFrames(orchestrator.produced)

\* all three workers have ingested the same frames while more wait for the
\* slowest of them
C19_Witness ==
    /\ DOMAIN workers = WINDOW_MULTIPLIERS
    /\ \A m \in DOMAIN workers : workers[m].status = "running"
    /\ workers[4].frame_index = 3
    /\ workers[8].frame_index = 2
    /\ workers[12].frame_index = 1
    /\ Len(workers[12].frames) = 2

\* C20: once the frame source has ended and every worker has ended, the
\* tracker holds, for each window whose worker emitted a Report, the last
\* Report that worker emitted.
C20_TrackerHoldsLastReports ==
    (SourceEnded /\ WorkersEnded) =>
        \A m \in DOMAIN workers :
            workers[m].sent # None =>
                /\ workers[m].window \in DOMAIN inner
                /\ inner[workers[m].window] = workers[m].sent[1]

\* What holds of the tracker at all times: an entry is a Report its worker
\* emitted, no newer than the last one emitted.
TrackerHoldsEmittedReports ==
    \A m \in DOMAIN workers :
        workers[m].window \in DOMAIN inner =>
            /\ workers[m].sent # None
            /\ inner[workers[m].window].window = workers[m].window
            /\ inner[workers[m].window].frame_index
                  <= workers[m].sent[1].frame_index

(***************************************************************************)
(* Warm-up                                                                 *)
(***************************************************************************)
\* the shortest window of the running analysis
ShortestWindow ==
    orchestrator.frame_rate
        * (CHOOSE m \in WINDOW_MULTIPLIERS : \A k \in WINDOW_MULTIPLIERS : m <= k)

\* C21: a worker with window W emits no Report with frame_index < W - 1 (on
\* those frames its estimate is unknown), so the tracker has no entry for W
\* while that worker has ingested fewer than W frames; and calculate_latest
\* is unknown as long as the source has produced fewer frames than the
\* shortest window.
C21_UnknownDuringWarmUp ==
    /\ \A m \in DOMAIN workers :
          LET w == workers[m]
          IN /\ w.sent # None => w.sent[1].frame_index >= w.window - 1
             /\ \A i \in 1..Len(w.reports) :
                   w.reports[i].frame_index >= w.window - 1
             /\ (w.frame_index > 0 /\ w.step.frame_index < w.window - 1)
                   => (w.step.estimate = None /\ ~w.step.emitted)
             /\ w.frame_index < w.window
                   => /\ w.sent = None
                      /\ w.reports = << >>
                      /\ w.window \notin DOMAIN inner
             /\ w.window \in DOMAIN inner
                   => inner[w.window].frame_index >= w.window - 1
    /\ (orchestrator.status # "unstarted"
          /\ orchestrator.produced < ShortestWindow)
          => (inner = << >> /\ calculate_latest(inner) = None)

\* the warm-up of the shortest window ends: its worker reports on the frame
\* with index W - 1, the first it can, and the tracker takes the Report
C21_Witness ==
    /\ orchestrator.status # "unstarted"
    /\ \E m \in DOMAIN workers :
          LET w == workers[m]
          IN /\ w.window = ShortestWindow
             /\ w.window \in DOMAIN inner
             /\ inner[w.window].frame_index = w.window - 1
             /\ w.step.frame_index >= w.window - 1

(***************************************************************************)
(* Properties of the analysis of a still video                             *)
(***************************************************************************)
\* every source frame read so far is the same frame
StillVideo ==
    \A n \in 1..Len(source) : source[n].frame = source[1].frame

\* C22: as long as all frames of the source are identical (constant black,
\* or any other one frame), every change-frame is black, every sample is 0,
\* the worker has emitted no Report, and the tracker is empty and
\* calculate_latest is unknown.
C22_StillVideoGivesNoReport ==
    StillVideo =>
        /\ \A k \in 1..Len(emitted) : val(emitted[k].frame) = 0
        /\ \A m \in DOMAIN workers :
              /\ workers[m].sent = None
              /\ workers[m].reports = << >>
              /\ workers[m].frame_index > 0
                    => (workers[m].step.estimate = None
                          /\ ~workers[m].step.emitted)
        /\ inner = << >>
        /\ calculate_latest(inner) = None

\* a worker has evaluated its estimate on a full window of a still white
\* video, and emitted nothing
C22_Witness ==
    /\ StillVideo
    /\ Len(source) = MaxVideoFrames
    /\ source[1].frame[1] = 255
    /\ \E m \in DOMAIN workers :
          /\ workers[m].frame_index = MaxVideoFrames
          /\ workers[m].step.evaluated
          /\ workers[m].step.after_push >= workers[m].window
          /\ workers[m].sent = None

\* a video that changes once makes the worker report
ChangingVideoReports ==
    /\ scene_changes = 1
    /\ \E m \in DOMAIN workers : workers[m].window \in DOMAIN inner



(***************************************************************************)
(* Properties of Oscillator::truncate_state                                *)
(***************************************************************************)
\* a step of truncate_state: nothing is pushed and nothing is queried
TruncateStep ==
    /\ pushes' = pushes
    /\ lastQuery' = lastQuery

C23_TruncateKeepsLast ==
    TruncateStep =>
        LET L == Len(state)
        IN IF L > OscWindow
           THEN /\ state' = SubSeq(state, L - OscWindow + 1, L)
                /\ state'[Len(state')] = state[L]
           ELSE state' = state

\* C23: truncate_state on a buffer of length L > W leaves exactly the last W
\* samples in order, old[L - W .. L), so that the sample pushed last is still
\* the last element; on a buffer of length <= W it changes nothing.
C23_TruncateKeepsLastWindow == [][C23_TruncateKeepsLast]_vars

\* What truncate_state does leave: the W samples before the newest one,
\* old[L - W - 1 .. L - 1), and nothing changes up to length W.
TruncateKeepsWindowBeforeNewest ==
    [][TruncateStep =>
          LET L == Len(state)
          IN IF L > OscWindow
             THEN state' = SubSeq(state, L - OscWindow, L - 1)
             ELSE state' = state]_vars


(***************************************************************************)
(* Properties of the tracker's coherence test                              *)
(***************************************************************************)
\* the number of adjacent pairs of stored Reports, from the first on, that
\* all satisfy Coherent
LeadingPairs(Coherent(_, _)) ==
    LET ok(n) == \A i \in 1..n : Coherent(Stored[i], Stored[i + 1])
    IN CHOOSE n \in 0..Len(Stored) :
          /\ n < Len(Stored) \/ n = 0
          /\ ok(n)
          /\ (n + 1 < Len(Stored)) => ~ok(n + 1)

\* C24: the pair (R_i, R_i+1) advances the chosen Report only if
\* R_i.frequency - s_i < R_i+1.frequency < R_i.frequency + s_i with
\* s_i = frame_rate / R_i.window, both ends excluded, and the traversal stops
\* at the first pair that fails: calculate_latest returns the frequency of
\* the Report that ends the leading run of such pairs, and when the first
\* pair fails it returns no Report beyond the first.
C24_OpenIntervalCoherence ==
    (Calculated /\ Len(Stored) >= 1) =>
        LET n == LeadingPairs(StrictlyWithin)
        IN IF n = 0
           THEN lastCall.result \in { None, Some(Stored[1].frequency) }
           ELSE lastCall.result = Some(Stored[n + 1].frequency)

\* What holds with the lower end included: the frequency returned is that of
\* the Report that ends the leading run of pairs with
\* R_i.frequency - s_i <= R_i+1.frequency < R_i.frequency + s_i, whatever
\* the pairs after the first failing one are.
HalfOpenIntervalCoherence ==
    (Calculated /\ Len(Stored) >= 1) =>
        LET n == LeadingPairs(HalfOpenWithin)
        IN IF n = 0
           THEN lastCall.result = None
           ELSE lastCall.result = Some(Stored[n + 1].frequency)


(***************************************************************************)
(* Properties of the choice among equal pairs and equal bins               *)
(***************************************************************************)
\* the pairs (k, k + 1) of bins_count.windows(2) whose votes add up to P
LargestCouples ==
    { k \in 0..(lastEstimate[1].window \div 2 - 2) :
        VotesFor(k) + VotesFor(k + 1) = LargestCouple }

\* f1 * f1_share + f2 * f2_share for the pair (k, k + 1)
InterpolatedAt(k) ==
    Frac(lastEstimate[1].frame_rate
             * (k * VotesFor(k) + (k + 1) * VotesFor(k + 1)),
         lastEstimate[1].window * LargestCouple)

\* C25: when several adjacent pairs (k, k + 1) share the largest sum
\* counts[k] + counts[k + 1], the estimate Analyzer::frequency reports is the
\* one interpolated over the pair with the lowest k.
C25_LowestOfEqualPairs ==
    (Estimated /\ ~lastEstimate[1].result.panics
        /\ lastEstimate[1].result.value # None) =>
        LET lowest == CHOOSE k \in LargestCouples :
                         \A j \in LargestCouples : k <= j
        IN lastEstimate[1].result.value = Some(InterpolatedAt(lowest))

\* What the code reports: the estimate interpolated over the pair with the
\* highest k among those that share the largest sum.
HighestOfEqualPairs ==
    (Estimated /\ ~lastEstimate[1].result.panics
        /\ lastEstimate[1].result.value # None) =>
        LET highest == CHOOSE k \in LargestCouples :
                          \A j \in LargestCouples : k >= j
        IN lastEstimate[1].result.value = Some(InterpolatedAt(highest))


\* the oscillator holds a whole window of samples with enough deviation
PastTheGates ==
    /\ Len(state) >= OscWindow
    /\ ~below_deviation(stats)

\* the FFT bins (true bin numbers, DC dropped) of a set of bin numbers that
\* carry the largest magnitude among them
LargestAmong(bins) ==
    { j \in bins : \A i \in bins : MagnitudeOfBin(j) >= MagnitudeOfBin(i) }

\* |X[j]| / W > MAGNITUDE_THRESHOLD, squared and in the scale of the table
AboveThreshold(j) ==
    MagnitudeOfBin(j)
        > (MAGNITUDE_THRESHOLD * OscWindow * CoefOne)
            * (MAGNITUDE_THRESHOLD * OscWindow * CoefOne)

\* the bins 1..W/2 inside the requested range lo..=hi
RequestedBins(lo, hi) ==
    { j \in 1..(OscWindow \div 2) : lo <= j /\ j <= hi }

\* the bins frequency_bin looks at for lo..=hi: positions lo..hi among the
\* bins after the DC bin, that is the bins lo + 1 ..= hi + 1
ConsideredBins(lo, hi) ==
    { j \in 1..(OscWindow \div 2) : lo + 1 <= j /\ j <= hi + 1 }

\* C26: when two or more bins inside the requested range share the largest
\* magnitude, and it is above the threshold, frequency_bin returns the
\* lowest of them.
C26_LowestOfEqualBins ==
    \A lo \in 0..MaxBin : \A hi \in lo..MaxBin :
        LET ties == LargestAmong(RequestedBins(lo, hi))
        IN (PastTheGates /\ Cardinality(ties) >= 2
               /\ \A j \in ties : AboveThreshold(j))
              => Answer(lo, hi)
                    = Some(CHOOSE j \in ties : \A i \in ties : j <= i)

\* What holds of the bins the code looks at: of equal largest magnitudes
\* above the threshold the lowest bin is returned.
LowestOfEqualConsideredBins ==
    \A lo \in 0..MaxBin : \A hi \in lo..MaxBin :
        LET ties == LargestAmong(ConsideredBins(lo, hi))
        IN (PastTheGates /\ ties # {} /\ \A j \in ties : AboveThreshold(j))
              => Answer(lo, hi)
                    = Some(CHOOSE j \in ties : \A i \in ties : j <= i)

\* two bins the code looks at carry the same largest magnitude above the
\* threshold, and a query has returned the lower one
EqualBinsQueried ==
    /\ Queried
    /\ PastTheGates
    /\ LET lo == lastQuery.relevant_bins[1]
           hi == lastQuery.relevant_bins[2]
           ties == LargestAmong(ConsideredBins(lo, hi))
       IN /\ Cardinality(ties) >= 2
          /\ \A j \in ties : AboveThreshold(j)
          /\ lastQuery.result = Some(1)
          /\ Answer(lo, hi) = lastQuery.result


(***************************************************************************)
(* Properties of the gates of Oscillator::frequency_bin                    *)
(***************************************************************************)
\* C27: frequency_bin returns a bin exactly when the buffer holds at least W
\* samples, the running deviation is at least 10.0 and the largest magnitude
\* |X[k]| / W of the bins inside the requested range is strictly above 5.0;
\* it returns None with fewer samples, with less deviation, with a largest
\* magnitude of 5.0 or less, and when the range selects no bin.
C27_BinIffGatesAndThreshold ==
    \A lo \in 0..MaxBin : \A hi \in lo..MaxBin :
        Answer(lo, hi) # None
            <=> /\ Len(state) >= OscWindow
                /\ ~FracLess(stats.variance, << 10, 1 >>)
                /\ \E j \in RequestedBins(lo, hi) : AboveThreshold(j)

\* What holds with the bins the code looks at, lo + 1 ..= hi + 1, in place
\* of the requested ones.
BinIffGatesAndThresholdOfConsidered ==
    \A lo \in 0..MaxBin : \A hi \in lo..MaxBin :
        Answer(lo, hi) # None
            <=> /\ Len(state) >= OscWindow
                /\ ~FracLess(stats.variance, << 10, 1 >>)
                /\ \E j \in ConsideredBins(lo, hi) : AboveThreshold(j)

\* a query past both gates whose only bin has magnitude exactly 5.0 has
\* returned None
ExactThresholdQueried ==
    /\ Queried
    /\ PastTheGates
    /\ lastQuery.relevant_bins = << 0, 0 >>
    /\ MagnitudeOfBin(1)
          = (MAGNITUDE_THRESHOLD * OscWindow * CoefOne)
              * (MAGNITUDE_THRESHOLD * OscWindow * CoefOne)
    /\ lastQuery.result = None
    /\ Answer(0, 0) = None


(***************************************************************************)
(* Properties of the drain of the report channels                          *)
(***************************************************************************)
\* the orchestrator reads the report channel of worker m in this step
Drained(m) ==
    /\ orchestrator.status = "drain"
    /\ channels[orchestrator.drained + 1] = m
    /\ orchestrator' # orchestrator

C28_DrainStep ==
    \A m \in DOMAIN workers :
        LET W == workers[m].window
            waiting == workers[m].reports
        IN /\ Drained(m) =>
                 /\ workers'[m].reports = << >>
                 /\ waiting = << >> => inner' = inner
                 /\ waiting # << >> =>
                       /\ inner' = insert(inner, waiting[Len(waiting)])
                       /\ \A i \in 1..Len(waiting) :
                             waiting[i].frame_index
                                <= inner'[W].frame_index
                       /\ orchestrator'.dropped = Len(waiting) - 1
           /\ (W \in DOMAIN inner' /\ (W \notin DOMAIN inner
                                          \/ inner'[W] # inner[W]))
                 => Drained(m)
           /\ W \in DOMAIN inner =>
                 /\ W \in DOMAIN inner'
                 /\ inner[W].frame_index <= inner'[W].frame_index

\* C28: in the round after a broadcast the orchestrator takes out of each
\* report channel everything that waits and forwards to the tracker at most
\* one Report, the one emitted last; the older ones are dropped.  The tracker
\* changes in no other way, and the frame_index of its Report for a window
\* never decreases.
C28_NewestPendingReportForwarded == [][C28_DrainStep]_vars

\* two Reports waited in a channel; the drain stored the newer one and
\* dropped the older
C28_Witness ==
    /\ orchestrator.dropped = 1
    /\ \E m \in DOMAIN workers :
          /\ workers[m].window \in DOMAIN inner
          /\ workers[m].sent = Some(inner[workers[m].window])
          /\ lastCall.report = workers[m].sent
          /\ inner[workers[m].window].frame_index = workers[m].window


(***************************************************************************)
(* Properties of the truncation cadence of the analyzer thread             *)
(***************************************************************************)
\* the truncation interval in frames as the claim states it
TruncationInterval(frame_rate) ==
    (TRUNCATE_STATE_AFTER_MS * frame_rate) \div 1000

\* the order within the last iteration of worker w: the frame's sample is in
\* the buffer when the estimate is evaluated, and the truncation comes after
PushThenReportThenTruncate(w) ==
    /\ w.step.after_push >= 1
    /\ w.pushed[Len(w.pushed)] = w.step.frame_index + 1
    /\ w.step.emitted
          => /\ w.step.evaluated
             /\ w.step.after_push >= w.window
             /\ w.sent # None
             /\ w.sent[1].frame_index = w.step.frame_index
    /\ w.step.after_truncate <= w.step.after_push
    /\ ~w.step.truncated => w.step.after_truncate = w.step.after_push

\* C29: a worker truncates its oscillators on exactly the frames whose index
\* is a multiple of floor(2000 * frame_rate / 1000), and within a frame it
\* pushes the sample, then evaluates and emits the Report, then truncates.
C29_TruncatesEveryNthFrameAfterReport ==
    \A m \in DOMAIN workers :
        LET w == workers[m]
        IN w.frame_index > 0 =>
              /\ w.step.truncated
                    <=> w.step.frame_index
                           % TruncationInterval(w.frame_rate) = 0
              /\ PushThenReportThenTruncate(w)

\* What holds of the iterations that run to their end: the truncation is on
\* exactly the multiples of the interval, after the push and the Report; an
\* iteration that panics ends before the truncation.
TruncationCadenceOfCompletedIterations ==
    \A m \in DOMAIN workers :
        LET w == workers[m]
        IN w.frame_index > 0 =>
              /\ w.status # "panicked"
                    => (w.step.truncated
                          <=> w.step.frame_index
                                 % TruncationInterval(w.frame_rate) = 0)
              /\ w.status = "panicked"
                    => (~w.step.truncated
                          /\ w.step.after_truncate = w.step.after_push)
              /\ PushThenReportThenTruncate(w)

\* a worker has reported on a frame and truncated a buffer longer than its
\* window on the same frame
ReportedThenTruncated ==
    \E m \in DOMAIN workers :
        LET w == workers[m]
        IN /\ w.step.emitted
           /\ w.step.truncated
           /\ w.step.after_push > w.window
           /\ w.step.after_truncate = w.window


(***************************************************************************)
(* Properties of Oscillator::push_pixel_value                              *)
(***************************************************************************)
RECURSIVE SumOfDistances(_, _)
\* the sum of |sample - mean| over the samples, as a fraction
SumOfDistances(samples, mean) ==
    IF samples = << >> THEN << 0, 1 >>
    ELSE FracAdd(FracAbs(FracAdd(<< Head(samples), 1 >>,
                                 << -mean[1], mean[2] >>)),
                 SumOfDistances(Tail(samples), mean))

C30_PushStep ==
    pushes' = pushes + 1 =>
        LET L == Len(state')
            W == OscWindow
            g == state'[L]
            alpha == Frac(W - 1, W)
            mean == stats'.average
        IN /\ state' = Append(state, g)
           /\ L < W => stats' = stats
           /\ L = W =>
                 /\ mean = Frac(SumSeq(state'), W)
                 /\ stats'.variance
                       = FracMul(SumOfDistances(state', mean), << 1, W >>)
           /\ L > W =>
                 /\ mean = FracAdd(Frac(g, W), FracMul(stats.average, alpha))
                 /\ stats'.variance
                       = FracAdd(FracMul(FracAbs(FracAdd(mean, << -g, 1 >>)),
                                         << 1, W >>),
                                 FracMul(stats.variance, alpha))

\* C30: a push that leaves the buffer shorter than W leaves mean and
\* deviation untouched; the push that makes it W long sets mean = (sum of the
\* samples) / W and var = (sum of |sample - mean|) / W over the W samples;
\* every push beyond that sets mean to g / W + mean * (W - 1) / W and then
\* var to |mean - g| / W + var * (W - 1) / W with the mean just updated.
C30_RunningMeanAndDeviation == [][C30_PushStep]_vars

\* the samples 0, 0, 0, 255 and then 20: the mean goes from 255/4 to
\* 20/4 + (255/4)(3/4) = 845/16 and the deviation from 765/8 to
\* |845/16 - 20| / 4 + (765/8)(3/4) = 5115/64
C30_Witness ==
    /\ state = << 0, 0, 0, 255, 20 >>
    /\ pushes = 5
    /\ stats.average = << 845, 16 >>
    /\ stats.variance = << 5115, 64 >>


(***************************************************************************)
(* Properties of the sample an oscillator is pushed                        *)
(***************************************************************************)
\* p(x, y) + p(x, y + 1) + p(x + 1, y) + p(x + 1, y + 1) of a change-frame
PatchSum(frame) == frame[1] + frame[2] + frame[3] + frame[4]

\* C31: for every frame a worker has ingested, the sample pushed to the
\* oscillator is floor((p(x, y) + p(x, y + 1) + p(x + 1, y) + p(x + 1, y + 1))
\* / 2) of the change-frame, whatever the four 8-bit intensities are: the
\* narrowing to 8 bits never changes the value.
C31_SampleIsHalfThePatchSum ==
    \A m \in DOMAIN workers :
        LET w == workers[m]
        IN \A i \in 1..Len(w.pushed) :
              samples_of(w.pushed)[i]
                 = PatchSum(emitted[w.pushed[i]].frame) \div 2

\* What holds: the sample is the low 8 bits of floor(sum / 2), which is
\* floor(sum / 2) itself as long as the four pixels add up to less than 512.
SampleIsLowByteOfHalfThePatchSum ==
    \A m \in DOMAIN workers :
        LET w == workers[m]
        IN \A i \in 1..Len(w.pushed) :
              LET half == PatchSum(emitted[w.pushed[i]].frame) \div 2
                  sample == samples_of(w.pushed)[i]
              IN /\ sample \in 0..255
                 /\ sample = half % 256
                 /\ half <= 255 => sample = half


(***************************************************************************)
(* Properties of the warmed-up Oscillator                                  *)
(***************************************************************************)
C32_WarmStep ==
    /\ Len(state) >= OscWindow => Len(state') >= OscWindow
    /\ pushes' >= OscWindow => Len(state') >= OscWindow
    \* the push that takes the branch of the full recomputation is the W-th
    /\ (pushes' = pushes + 1 /\ Len(state') = OscWindow)
          => pushes' = OscWindow
    /\ (pushes' = pushes + 1 /\ pushes' > OscWindow)
          => Len(state') > OscWindow
    \* a query of a warm oscillator that returns None has passed the test
    \* of the length: the deviation or the magnitude is too small
    /\ (pushes' >= OscWindow /\ lastQuery' # lastQuery
           /\ lastQuery'.result = None)
          => \/ below_deviation(stats')
             \/ \A j \in ConsideredBins(lastQuery'.relevant_bins[1],
                                        lastQuery'.relevant_bins[2]) :
                   ~AboveThreshold(j)'

\* C32: once the buffer of an Oscillator has reached length W, no sequence
\* of pushes and truncations takes it below W again; so the full
\* recomputation of mean and deviation (the push that makes the length W)
\* happens once, at the W-th push, and from then on frequency_bin never
\* returns None for want of samples.
C32_NeverBelowWindowAgain == [][C32_WarmStep]_vars

\* a buffer that grew past W was truncated back to W, and a query of it has
\* returned a bin
C32_Witness ==
    /\ pushes > OscWindow
    /\ Len(state) = OscWindow
    /\ Queried
    /\ lastQuery.result # None
    /\ Answer(lastQuery.relevant_bins[1], lastQuery.relevant_bins[2])
          = lastQuery.result


====
